---- MODULE Spec2Model ----
(***************************************************************************)
(* Model of the erp-sync job pipeline (app/features/job_sync):             *)
(* fetch passes (scheduled loop and on-demand trigger) upsert raw ERP      *)
(* records into erp_raw_data and enqueue jobs in job_queue; the process    *)
(* loop claims jobs and delivers them to PocketBase; the reaper resets     *)
(* jobs stuck in processing.  Every SQL statement is one atomic step; a    *)
(* SELECT followed by a write in the same Python function is two steps,    *)
(* because the functions open no transaction around the pair.              *)
(* Time is counted in minutes.  The code only ever compares a stored       *)
(* timestamp with the current instant, so timestamps are kept relative to  *)
(* it: now is the origin, a timestamp in the past is negative, and the     *)
(* passing of time (Tick) shifts every stored timestamp.  A timestamp      *)
(* beyond the point where every comparison of the code has the same        *)
(* outcome is kept at that point.                                          *)
(***************************************************************************)
EXTENDS Integers, Sequences, FiniteSets, Bags, TLC

\* ---------------------------------------------------------------- bounds
MaxVer == 2          \* payload versions the source goes through, per key
MaxCrashes == 1      \* abrupt process terminations in one behaviour
TickStep == 5        \* minutes the clock advances in one Tick
MaxErrors == 1       \* errors raised at the start of a tick, per loop

\* ------------------------------------------------------- program constants
max_retries == 5
backoff_step == 5
backoff_cap == 60
timeout_minutes == 10

Null == 1000000      \* SQL NULL in a timestamp column
now == 0             \* now_utc(): the current instant

KeyOrder == <<"A", "B", "C">>     \* the order in which the source lists records

VARIABLES
    source,     \* ERP content: key -> [v, wo, keyed, ord]; v = 0: no such
                \* record; keyed: the record carries its three natural-key
                \* fields; ord: the order in which its fields are listed
    raw,        \* erp_raw_data rows, id = index
    jobs,       \* job_queue rows, id = index
    pb,         \* PocketBase collection rows, id = index
    fpc, fsnap, fidx, fsel, fpid, fupd, fjob,   \* fetch passes
    workers,    \* the processes draining the queue
    wpc, wjob, wfound, wrc,                     \* queue drains
    reaped,     \* what the last reset_stuck_jobs returned
    crashes,    \* abrupt terminations so far
    attempts,   \* history: job id -> claims since the job was created or re-opened
    lost,       \* history: job id -> those of its attempts that a crash cut short
    ended,      \* history: job id -> attempts ended by mark_job_done / _failed
    push_log,   \* push_log rows (job_id, response_code), as a bag
    fres,       \* fetch pass -> its stored_count / queued_count, then its result
    draining,   \* drain -> a call of process_all_queued_jobs is running
    tick_left,  \* history: drain -> the jobs that were eligible when the
                \* call began and that it has not claimed yet
    tick_done,  \* history: drain -> the jobs that the running call has claimed
    is_running, \* SyncWorker.is_running
    lpc,        \* SyncWorker loop -> where its task stands
    errs,       \* history: loop -> errors raised in its ticks
    current_sync_stats,     \* SyncWorker.current_sync_stats
    api,        \* the response to the last /stop or /status request
    tasks,      \* SyncWorker loop -> the asyncio tasks that are running it
    lifespan    \* where the lifespan context of the application stands

fvars == <<fpc, fsnap, fidx, fsel, fpid, fupd, fjob>>
wvars == <<wpc, wjob, wfound, wrc>>
hist == <<attempts, lost, ended>>
tvars == <<draining, tick_left, tick_done>>
lvars == <<is_running, lpc, errs, current_sync_stats, api, tasks, lifespan>>
vars == <<source, raw, jobs, pb, fvars, workers, wvars, reaped, crashes,
          hist, push_log, fres, tvars, lvars>>

NoPayload == [k |-> "", v |-> 0, wo |-> TRUE, keyed |-> TRUE, ord |-> 1]
NoJob == [id |-> 0, payload_ref |-> 0, payload |-> NoPayload]
NoCounts == [stored |-> 0, queued |-> 0]
NoStats == [is_syncing |-> FALSE, total_fetched |-> 0, unique_records |-> 0,
            queued_jobs |-> 0]
NoResponse == [op |-> "none"]
Loops == {"fetch", "process", "reaper"}

\* The fields of a record as the JSON object of the source lists them: a
\* dict keeps the order of the response text.  ord names the layout.
Layouts == << <<"k", "v", "wo">>, <<"wo", "v", "k">> >>

\* the JSON text of the value of one field
FieldText(p, name) ==
    CASE name = "k" -> p.k
      [] name = "v" -> ToString(p.v)
      [] name = "wo" -> IF p.wo THEN "true" ELSE "null"

\* the dict: its (key, value) items in insertion order
Items(p) ==
    [i \in DOMAIN Layouts[p.ord] |->
        <<Layouts[p.ord][i], FieldText(p, Layouts[p.ord][i])>>]

\* the place of a key in the lexicographic order of the keys
KeyRank(name) ==
    CASE name = "k" -> 1
      [] name = "v" -> 2
      [] name = "wo" -> 3

\* sorted(items): the items in ascending order of their keys
SortKeys(items) ==
    [i \in DOMAIN items |->
        CHOOSE it \in {items[n] : n \in DOMAIN items} :
            Cardinality({n \in DOMAIN items :
                            KeyRank(items[n][1]) < KeyRank(it[1])}) = i - 1]

\* json.dumps(payload, sort_keys=...): the text, item by item
json_dumps(p, sort_keys) ==
    IF sort_keys THEN SortKeys(Items(p)) ELSE Items(p)

\* Faulty variant: json.dumps(payload) without sort_keys
calculate_payload_hash_Unsorted(p) == json_dumps(p, FALSE)

\* calculate_payload_hash: md5 of json.dumps(payload, sort_keys=True).  The
\* digest stands for the text it is taken of: two texts of the model have
\* the same digest only if they are the same text.
calculate_payload_hash(p) == json_dumps(p, TRUE)

\* generate_erp_id: CUST_ORDER_ID-CUST_ORDER_LINE_NO-BOM_PART_ID
generate_erp_id(p) == p.k

\* ERPRecord(**payload): BOM_WORKORDER_BASE_ID / _SUB_ID are required
Transformable(p) == p.wo

Min(S) == CHOOSE x \in S : \A y \in S : x <= y

\* ------------------------------------------------------------ table reads
\* SELECT id FROM erp_raw_data WHERE erp_id = ?   (0: no row)
RawId(erp_id) ==
    IF \E i \in DOMAIN raw : raw[i].erp_id = erp_id
    THEN CHOOSE i \in DOMAIN raw : raw[i].erp_id = erp_id
    ELSE 0

\* Faulty variant: the SELECT finds no row
JobFor_NoMatch(payload_ref) == 0

\* SELECT id, status FROM job_queue WHERE payload_ref = ?  -- fetchone()
JobFor(payload_ref) ==
    LET S == {j \in DOMAIN jobs : jobs[j].payload_ref = payload_ref}
    IN IF S = {} THEN 0 ELSE Min(S)

\* fetch_erp_data: the records the source returns, in source order
SourceRecords ==
    LET present(k) == k \in DOMAIN source /\ source[k].v > 0
        F[i \in 0..Len(KeyOrder)] ==
            IF i = 0 THEN <<>>
            ELSE IF present(KeyOrder[i])
                 THEN Append(F[i-1], [k |-> KeyOrder[i],
                                      v |-> source[KeyOrder[i]].v,
                                      wo |-> source[KeyOrder[i]].wo,
                                      keyed |-> source[KeyOrder[i]].keyed,
                                      ord |-> source[KeyOrder[i]].ord])
                 ELSE F[i-1]
    IN F[Len(KeyOrder)]

\* ------------------------------------------------------------------ Init
\* The state after construction: empty tables, an empty downstream
\* collection, no pass and no drain in flight.  S: the content of the
\* source; F: the fetch passes that can run; W: the draining processes.
NoRecords(K) == [k \in K |-> [v |-> 0, wo |-> TRUE, keyed |-> TRUE, ord |-> 1]]

InitWith(S, F, W) ==
    /\ source = S
    /\ raw = <<>>
    /\ jobs = <<>>
    /\ pb = <<>>
    /\ fpc = [f \in F |-> "idle"]
    /\ fsnap = [f \in F |-> <<>>]
    /\ fidx = [f \in F |-> 0]
    /\ fsel = [f \in F |-> 0]
    /\ fpid = [f \in F |-> 0]
    /\ fupd = [f \in F |-> FALSE]
    /\ fjob = [f \in F |-> 0]
    /\ workers = W
    /\ wpc = [w \in W |-> "idle"]
    /\ wjob = [w \in W |-> NoJob]
    /\ wfound = [w \in W |-> 0]
    /\ wrc = [w \in W |-> 0]
    /\ reaped = 0
    /\ crashes = 0
    /\ attempts = <<>>
    /\ lost = <<>>
    /\ ended = <<>>
    /\ push_log = EmptyBag
    /\ fres = [f \in F |-> NoCounts]
    /\ draining = [w \in W |-> FALSE]
    /\ tick_left = [w \in W |-> {}]
    /\ tick_done = [w \in W |-> {}]
    /\ is_running = FALSE
    /\ lpc = [l \in Loops |-> "off"]
    /\ errs = [l \in Loops |-> 0]
    /\ current_sync_stats = NoStats
    /\ api = NoResponse
    /\ tasks = [l \in Loops |-> 0]
    /\ lifespan = "created"

\* one process: the scheduled fetch loop, the process loop, the reaper
Init == InitWith(NoRecords({"A"}), {"sched"}, {"w1"})

\* ------------------------------------------------------------ environment
\* a timestamp TickStep minutes later, seen from the new current instant
Max(a, b) == IF a >= b THEN a ELSE b
Shift(t, floor) == IF t = Null THEN Null ELSE Max(t - TickStep, floor)

Aged(row) ==
    [row EXCEPT
        !.last_attempt_at = Shift(@, now - timeout_minutes - TickStep),
        !.next_attempt_at = Shift(@, now)]

\* The clock advances by TickStep minutes.  The two statements of one
\* db_helpers function run within the same instant: time passes between
\* functions and during the HTTP requests, not between a SELECT and the
\* write that follows it in the same function, nor between the write that
\* ends an attempt, its push_log row and the next SELECT of the drain.
Tick ==
    /\ jobs' = [j \in DOMAIN jobs |-> Aged(jobs[j])]
    /\ jobs' # jobs
    /\ \A f \in DOMAIN fpc : fpc[f] \notin {"upsert_wr", "enqueue_wr"}
    /\ \A w \in workers : wpc[w] \notin {"claim_wr", "fail_wr"}
    /\ \A w \in workers : wpc[w] \notin {"log_200", "log_500"}
    /\ \A w \in workers : ~(draining[w] /\ wpc[w] = "idle")
    /\ UNCHANGED <<source, raw, pb, fvars, workers, wvars, reaped, crashes,
                   hist, push_log, fres, tvars, lvars>>

\* the ERP system creates a record or changes its content
SourceChange(k) ==
    /\ source[k].v < MaxVer
    /\ \E b \in BOOLEAN :
        source' = [source EXCEPT ![k] = [@ EXCEPT !.v = source[k].v + 1,
                                                  !.wo = b]]
    /\ UNCHANGED <<raw, jobs, pb, fvars, workers, wvars, reaped,
                   crashes, hist, push_log, fres, tvars, lvars>>

\* the ERP system lists the fields of a record in another order; the
\* content of the record is the same
SourceReorders(k) ==
    /\ source[k].v > 0
    /\ \E o \in DOMAIN Layouts :
        /\ o # source[k].ord
        /\ source' = [source EXCEPT ![k] = [@ EXCEPT !.ord = o]]
    /\ UNCHANGED <<raw, jobs, pb, fvars, workers, wvars, reaped,
                   crashes, hist, push_log, fres, tvars, lvars>>

\* the ERP system no longer returns a record it returned before
SourceOmits(k) ==
    /\ source[k].v > 0
    /\ source' = [source EXCEPT ![k] = [@ EXCEPT !.v = 0]]
    /\ UNCHANGED <<raw, jobs, pb, fvars, workers, wvars, reaped,
                   crashes, hist, push_log, fres, tvars, lvars>>

\* ------------------------------------------------------------ fetch pass
\* Faulty variant: every record passes the validation
validate_required_fields_Any(record) == TRUE

\* all(field in record and record[field] for field in required)
validate_required_fields(record) == record.keyed

\* for record in erp_records: if not validate_required_fields(record):
\* continue -- the index of the next record after i that the loop does not
\* skip (0: there is none)
NextValid(erp_records, i) ==
    LET S == {n \in (i + 1)..Len(erp_records) :
                 validate_required_fields(erp_records[n])}
    IN IF S = {} THEN 0 ELSE Min(S)

\* fetch_and_store_erp_data: the loop moves to the next record or returns
NextRecord(f) ==
    IF NextValid(fsnap[f], fidx[f]) # 0
    THEN /\ fidx' = [fidx EXCEPT ![f] = NextValid(fsnap[f], fidx[f])]
         /\ fpc' = [fpc EXCEPT ![f] = "upsert"]
         /\ fsnap' = fsnap
    ELSE /\ fidx' = [fidx EXCEPT ![f] = 0]
         /\ fpc' = [fpc EXCEPT ![f] = "idle"]
         /\ fsnap' = [fsnap EXCEPT ![f] = <<>>]

\* stored_count += 1 / queued_count += 1
Stored(f) == [fres EXCEPT ![f].stored = @ + 1]
Queued(f) == [fres EXCEPT ![f].queued = @ + 1]

\* fetch_and_store_erp_data, up to the start of the loop over the records:
\* fetch_erp_data has returned, stored_count = 0, queued_count = 0
FetchBegin(f) ==
    /\ fpc[f] = "idle"
    /\ SourceRecords # <<>>
    \* a pass none of whose records is valid writes nothing
    /\ NextValid(SourceRecords, 0) # 0
    /\ fsnap' = [fsnap EXCEPT ![f] = SourceRecords]
    /\ fidx' = [fidx EXCEPT ![f] = NextValid(SourceRecords, 0)]
    /\ fpc' = [fpc EXCEPT ![f] = "upsert"]
    /\ fres' = [fres EXCEPT ![f] = NoCounts]
    /\ UNCHANGED <<source, raw, jobs, pb, fsel, fpid, fupd, fjob,
                   workers, wvars, reaped,
                   crashes, hist, push_log, tvars>>

FetchStart(f) == FetchBegin(f) /\ UNCHANGED lvars

\* Faulty variant: the failed pass reports a stored record
FailedCounts_Counted(f) == Stored(f)[f]

\* except Exception: return {"stored": 0, "queued": 0}
FailedCounts(f) == NoCounts

\* fetch_and_store_erp_data when fetch_erp_data raises (network error,
\* timeout, HTTP error status): the except clause returns the zero counts
FetchRaises(f) ==
    /\ fpc[f] = "idle"
    /\ fres' = [fres EXCEPT ![f] = FailedCounts(f)]
    /\ UNCHANGED <<source, raw, jobs, pb, fvars, workers, wvars, reaped,
                   crashes, hist, push_log, tvars>>

FetchFail(f) == FetchRaises(f) /\ UNCHANGED lvars

\* Faulty variant: every stored row counts as updated
is_updated_Always(old_hash, new_hash) == TRUE

\* Faulty variant: a changed payload is not noticed
is_updated_Never(old_hash, new_hash) == FALSE

\* is_updated = old_hash != new_hash
is_updated(old_hash, new_hash) == old_hash # new_hash

\* insert_raw_erp_data: the SELECT, and the return when the hash is equal
UpsertSelect(f) ==
    /\ fpc[f] = "upsert"
    /\ LET rec == fsnap[f][fidx[f]]
           existing == RawId(generate_erp_id(rec))
       IN IF existing # 0
             /\ ~is_updated(raw[existing].payload_hash,
                            calculate_payload_hash(rec))
          THEN /\ fpid' = [fpid EXCEPT ![f] = existing]
               /\ fupd' = [fupd EXCEPT ![f] = FALSE]
               /\ fpc' = [fpc EXCEPT ![f] = "enqueue"]
               /\ fsel' = fsel
               /\ fres' = Stored(f)
          ELSE /\ fsel' = [fsel EXCEPT ![f] = existing]
               /\ fpc' = [fpc EXCEPT ![f] = "upsert_wr"]
               /\ UNCHANGED <<fpid, fupd, fres>>
    /\ UNCHANGED <<source, raw, jobs, pb, fsnap, fidx, fjob,
                   workers, wvars, reaped,
                   crashes, hist, push_log, tvars, lvars>>

\* Faulty variant: the column has no UNIQUE constraint
UniqueViolation_NoConstraint(erp_id) == FALSE

\* erp_id TEXT UNIQUE NOT NULL: an INSERT of an erp_id that a row has raises
UniqueViolation(erp_id) == RawId(erp_id) # 0

\* insert_raw_erp_data: the UPDATE (hash differed) or the INSERT (no row)
UpsertWrite(f) ==
    /\ fpc[f] = "upsert_wr"
    /\ LET rec == fsnap[f][fidx[f]]
           row == [erp_id |-> generate_erp_id(rec), payload |-> rec,
                   payload_hash |-> calculate_payload_hash(rec)]
       IN IF fsel[f] # 0
          THEN /\ raw' = [raw EXCEPT ![fsel[f]] = row]
               /\ fpid' = [fpid EXCEPT ![f] = fsel[f]]
               /\ fupd' = [fupd EXCEPT ![f] = TRUE]
               /\ fpc' = [fpc EXCEPT ![f] = "enqueue"]
               /\ fres' = Stored(f)
               /\ UNCHANGED <<fidx, fsnap>>
          ELSE IF UniqueViolation(row.erp_id)
               \* erp_id is UNIQUE: the INSERT raises, (None, False)
               THEN /\ raw' = raw
                    /\ UNCHANGED <<fpid, fupd, fres>>
                    /\ NextRecord(f)
               ELSE /\ raw' = Append(raw, row)
                    /\ fpid' = [fpid EXCEPT ![f] = Len(raw) + 1]
                    /\ fupd' = [fupd EXCEPT ![f] = FALSE]
                    /\ fpc' = [fpc EXCEPT ![f] = "enqueue"]
                    /\ fres' = Stored(f)
                    /\ UNCHANGED <<fidx, fsnap>>
    /\ fsel' = [fsel EXCEPT ![f] = 0]
    /\ UNCHANGED <<source, jobs, pb, fjob, workers, wvars, reaped,
                   crashes, hist, push_log, tvars, lvars>>

\* Faulty variant: a failed job is re-opened as well
Requeues_AnyFinished(force_requeue, status) ==
    force_requeue /\ status \in {"done", "failed"}

\* Faulty variant: a done job is re-opened whether or not the payload changed
Requeues_Unforced(force_requeue, status) == status = "done"

\* Faulty variant: a done job is never re-opened
Requeues_Never(force_requeue, status) == FALSE

\* Faulty variant: only a failed job is left alone
Requeues_NotFailed(force_requeue, status) ==
    force_requeue /\ status # "failed"

\* force_requeue and status == "done"
Requeues(force_requeue, status) == force_requeue /\ status = "done"

\* create_job_for_payload: the SELECT, and the return when a job exists
\* that is not to be requeued
EnqueueSelect(f) ==
    /\ fpc[f] = "enqueue"
    /\ LET existing == JobFor(fpid[f])
       IN IF existing # 0 /\ ~Requeues(fupd[f], jobs[existing].status)
          THEN /\ NextRecord(f)
               /\ fjob' = fjob
               /\ fres' = Queued(f)
          ELSE /\ fjob' = [fjob EXCEPT ![f] = existing]
               /\ fpc' = [fpc EXCEPT ![f] = "enqueue_wr"]
               /\ UNCHANGED <<fidx, fsnap, fres>>
    /\ UNCHANGED <<source, raw, jobs, pb, fsel, fpid, fupd,
                   workers, wvars, reaped,
                   crashes, hist, push_log, tvars, lvars>>

\* INSERT INTO job_queue (payload_ref, status, created_at, next_attempt_at).
\* created_at is the insertion instant, so ORDER BY created_at is the order
\* of the row ids; the column itself is not kept.
NewJob(payload_ref) ==
    [payload_ref |-> payload_ref, status |-> "queued", retry_count |-> 0,
     last_attempt_at |-> Null, next_attempt_at |-> now]

\* create_job_for_payload: the requeue UPDATE or the INSERT
EnqueueWrite(f) ==
    /\ fpc[f] = "enqueue_wr"
    /\ IF fjob[f] # 0
       THEN jobs' = [jobs EXCEPT ![fjob[f]] =
                        [@ EXCEPT !.status = "queued",
                                  !.next_attempt_at = now,
                                  !.retry_count = 0]]
       ELSE jobs' = Append(jobs, NewJob(fpid[f]))
    /\ attempts' = IF fjob[f] # 0 THEN [attempts EXCEPT ![fjob[f]] = 0]
                   ELSE Append(attempts, 0)
    /\ lost' = IF fjob[f] # 0 THEN [lost EXCEPT ![fjob[f]] = 0]
               ELSE Append(lost, 0)
    /\ ended' = IF fjob[f] # 0 THEN ended ELSE Append(ended, 0)
    /\ fjob' = [fjob EXCEPT ![f] = 0]
    /\ fres' = Queued(f)
    /\ NextRecord(f)
    /\ UNCHANGED <<source, raw, pb, fsel, fpid, fupd,
                   workers, wvars, reaped, crashes, push_log, tvars, lvars>>

\* ----------------------------------------------------------- queue drain
\* Faulty variant: the SELECT does not look at next_attempt_at
Eligible_IgnoresBackoff(j) == jobs[j].status = "queued"

\* WHERE j.status = 'queued' AND j.next_attempt_at <= now
Eligible(j) ==
    /\ jobs[j].status = "queued"
    /\ jobs[j].next_attempt_at # Null
    /\ jobs[j].next_attempt_at <= now

\* Faulty variant: ORDER BY j.created_at DESC
Oldest_Newest(S) == CHOOSE x \in S : \A y \in S : x >= y

\* ORDER BY j.created_at ASC LIMIT 1: the row inserted first
Oldest(S) == Min(S)

\* get_next_queued_job: the SELECT ... JOIN erp_raw_data
ClaimSelect(w) ==
    /\ w \in workers
    /\ wpc[w] = "idle"
    /\ LET S == {j \in DOMAIN jobs : Eligible(j)}
       IN /\ S # {}
          /\ LET j == Oldest(S)
             IN wjob' = [wjob EXCEPT ![w] =
                    [id |-> j, payload_ref |-> jobs[j].payload_ref,
                     payload |-> raw[jobs[j].payload_ref].payload]]
          /\ tick_left' = IF draining[w] THEN tick_left
                          ELSE [tick_left EXCEPT ![w] = S]
    /\ tick_done' = tick_done
    /\ draining' = [draining EXCEPT ![w] = TRUE]
    /\ wpc' = [wpc EXCEPT ![w] = "claim_wr"]
    /\ UNCHANGED <<source, raw, jobs, pb, fvars, workers, wfound, wrc,
                   reaped, crashes, hist, push_log, fres, lvars>>

\* Faulty variant: the loop of process_all_queued_jobs ends after any job
Drained_Early == TRUE

\* get_next_queued_job finds no row: it returns None
Drained == \A j \in DOMAIN jobs : ~Eligible(j)

\* process_all_queued_jobs: if not job: break
DrainEnd(w) ==
    /\ w \in workers
    /\ wpc[w] = "idle"
    /\ draining[w]
    /\ Drained
    /\ draining' = [draining EXCEPT ![w] = FALSE]
    /\ tick_left' = [tick_left EXCEPT ![w] = {}]
    /\ tick_done' = [tick_done EXCEPT ![w] = {}]
    /\ UNCHANGED <<source, raw, jobs, pb, fvars, workers, wvars,
                   reaped, crashes, hist, push_log, fres, lvars>>

\* get_next_queued_job: UPDATE job_queue SET status = 'processing',
\* last_attempt_at = ? WHERE id = ?
ClaimUpdate(job_id) ==
    [jobs EXCEPT ![job_id] = [@ EXCEPT !.status = "processing",
                                       !.last_attempt_at = now]]

ClaimWrite(w) ==
    /\ w \in workers
    /\ wpc[w] = "claim_wr"
    /\ jobs' = ClaimUpdate(wjob[w].id)
    /\ attempts' = [attempts EXCEPT ![wjob[w].id] = @ + 1]
    /\ wpc' = [wpc EXCEPT ![w] = "push"]
    /\ tick_left' = [tick_left EXCEPT ![w] = @ \ {wjob[w].id}]
    /\ tick_done' = [tick_done EXCEPT ![w] = @ \cup {wjob[w].id}]
    /\ UNCHANGED <<source, raw, pb, fvars, workers, wjob, wfound, wrc,
                   reaped, crashes, lost, ended, push_log, fres, draining,
                   lvars>>

\* Faulty variant: the lookup filter matches no record
find_existing_record_NoMatch(k) == 0

\* find_existing_record: the first record with the natural key (0: none)
find_existing_record(k) ==
    LET S == {i \in DOMAIN pb : pb[i].key = k}
    IN IF S = {} THEN 0 ELSE Min(S)

\* process_queued_job: transform_to_pocketbase, then push_to_pocketbase up
\* to the lookup.  A transform error or a failed lookup ends the attempt.
Find(w) ==
    /\ w \in workers
    /\ wpc[w] = "push"
    /\ \/ /\ ~Transformable(wjob[w].payload)
          /\ wpc' = [wpc EXCEPT ![w] = "fail"]
          /\ wfound' = wfound
       \/ /\ Transformable(wjob[w].payload)
          /\ \/ /\ wpc' = [wpc EXCEPT ![w] = "fail"]
                /\ wfound' = wfound
             \/ /\ wpc' = [wpc EXCEPT ![w] = "write"]
                /\ wfound' = [wfound EXCEPT ![w] =
                                 find_existing_record(wjob[w].payload.k)]
    /\ UNCHANGED <<source, raw, jobs, pb, fvars, workers, wjob, wrc,
                   reaped, crashes, hist, push_log, fres, tvars, lvars>>

\* transform_to_pocketbase: the fields of the downstream record
transform_to_pocketbase(p) == [key |-> p.k, v |-> p.v]

\* push_to_pocketbase: update_record(existing["id"]) or create_record;
\* either request can fail
Write(w) ==
    /\ w \in workers
    /\ wpc[w] = "write"
    /\ \/ /\ wpc' = [wpc EXCEPT ![w] = "fail"]
          /\ pb' = pb
       \/ /\ wpc' = [wpc EXCEPT ![w] = "done"]
          /\ pb' = IF wfound[w] # 0
                   THEN [pb EXCEPT ![wfound[w]] =
                            transform_to_pocketbase(wjob[w].payload)]
                   ELSE Append(pb, transform_to_pocketbase(wjob[w].payload))
    /\ wfound' = [wfound EXCEPT ![w] = 0]
    /\ UNCHANGED <<source, raw, jobs, fvars, workers, wjob, wrc,
                   reaped, crashes, hist, push_log, fres, tvars, lvars>>

\* mark_job_done: UPDATE job_queue SET status = 'done' WHERE id = ?
mark_job_done(job_id) ==
    [jobs EXCEPT ![job_id] = [@ EXCEPT !.status = "done"]]

MarkDone(w) ==
    /\ w \in workers
    /\ wpc[w] = "done"
    /\ jobs' = mark_job_done(wjob[w].id)
    /\ ended' = [ended EXCEPT ![wjob[w].id] = @ + 1]
    /\ wpc' = [wpc EXCEPT ![w] = "log_200"]
    /\ UNCHANGED <<source, raw, pb, fvars, workers, wjob, wfound, wrc,
                   reaped, crashes, attempts, lost, push_log, fres, tvars,
                   lvars>>

\* Faulty variant: the row replaces the log instead of being appended
log_push_result_Overwrites(job_id, response_code) ==
    SetToBag({[job_id |-> job_id, response_code |-> response_code]})

\* log_push_result: INSERT INTO push_log (job_id, response_code, ...)
log_push_result(job_id, response_code) ==
    push_log (+) SetToBag({[job_id |-> job_id,
                            response_code |-> response_code]})

\* process_queued_job: log_push_result(job_id, 200, "Success"); return True
LogDone(w) ==
    /\ w \in workers
    /\ wpc[w] = "log_200"
    /\ push_log' = log_push_result(wjob[w].id, 200)
    /\ wpc' = [wpc EXCEPT ![w] = "idle"]
    /\ wjob' = [wjob EXCEPT ![w] = NoJob]
    /\ UNCHANGED <<source, raw, jobs, pb, fvars, workers, wfound, wrc,
                   reaped, crashes, hist, fres, tvars, lvars>>

\* mark_job_failed: SELECT retry_count FROM job_queue WHERE id = ?
MarkFailedSelect(w) ==
    /\ w \in workers
    /\ wpc[w] = "fail"
    /\ wrc' = [wrc EXCEPT ![w] = jobs[wjob[w].id].retry_count]
    /\ wpc' = [wpc EXCEPT ![w] = "fail_wr"]
    /\ UNCHANGED <<source, raw, jobs, pb, fvars, workers, wjob, wfound,
                   reaped, crashes, hist, push_log, fres, tvars, lvars>>

\* Faulty variant: the retry is due at once
backoff_minutes_None(retry_count) == 0

\* min(retry_count * 5, 60)
backoff_minutes(retry_count) ==
    IF retry_count * backoff_step < backoff_cap
    THEN retry_count * backoff_step ELSE backoff_cap

\* Faulty variant: retry_count > max_retries instead of >=
FailedRow_OffByOne(row, read_count) ==
    LET retry_count == read_count + 1
    IN IF retry_count > max_retries
       THEN [row EXCEPT !.status = "failed", !.retry_count = retry_count,
                        !.next_attempt_at = Null]
       ELSE [row EXCEPT !.status = "queued", !.retry_count = retry_count,
                        !.next_attempt_at = now + backoff_minutes(retry_count)]

\* mark_job_failed: the row the UPDATE writes, from the retry_count read
FailedRow(row, read_count) ==
    LET retry_count == read_count + 1
    IN IF retry_count >= max_retries
       THEN [row EXCEPT !.status = "failed", !.retry_count = retry_count,
                        !.next_attempt_at = Null]
       ELSE [row EXCEPT !.status = "queued", !.retry_count = retry_count,
                        !.next_attempt_at = now + backoff_minutes(retry_count)]

\* mark_job_failed: UPDATE job_queue SET status, retry_count,
\* next_attempt_at WHERE id = ?
MarkFailedWrite(w) ==
    /\ w \in workers
    /\ wpc[w] = "fail_wr"
    /\ jobs' = [jobs EXCEPT ![wjob[w].id] = FailedRow(@, wrc[w])]
    /\ ended' = [ended EXCEPT ![wjob[w].id] = @ + 1]
    /\ wpc' = [wpc EXCEPT ![w] = "log_500"]
    /\ wrc' = [wrc EXCEPT ![w] = 0]
    /\ UNCHANGED <<source, raw, pb, fvars, workers, wjob, wfound,
                   reaped, crashes, attempts, lost, push_log, fres, tvars,
                   lvars>>

\* process_queued_job: log_push_result(job_id, 500, error_msg); return False
LogFailed(w) ==
    /\ w \in workers
    /\ wpc[w] = "log_500"
    /\ push_log' = log_push_result(wjob[w].id, 500)
    /\ wpc' = [wpc EXCEPT ![w] = "idle"]
    /\ wjob' = [wjob EXCEPT ![w] = NoJob]
    /\ UNCHANGED <<source, raw, jobs, pb, fvars, workers, wfound, wrc,
                   reaped, crashes, hist, fres, tvars, lvars>>

\* ----------------------------------------------------------------- reaper
\* Faulty variant: last_attempt_at <= now - timeout
Stuck_Inclusive(row, timeout) ==
    /\ row.status = "processing"
    /\ row.last_attempt_at # Null
    /\ row.last_attempt_at <= now - timeout

\* Faulty variant: the UPDATE looks for the wrong status
Stuck_WrongStatus(row, timeout) ==
    /\ row.status = "queued"
    /\ row.last_attempt_at # Null
    /\ row.last_attempt_at < now - timeout

\* WHERE status = 'processing' AND last_attempt_at < now - timeout
Stuck(row, timeout) ==
    /\ row.status = "processing"
    /\ row.last_attempt_at # Null
    /\ row.last_attempt_at < now - timeout

\* Faulty variant: SET status = 'queued', retry_count = retry_count + 1
reset_stuck_jobs_Counts ==
    /\ jobs' = [j \in DOMAIN jobs |->
                  IF Stuck(jobs[j], timeout_minutes)
                  THEN [jobs[j] EXCEPT !.status = "queued",
                                       !.retry_count = @ + 1]
                  ELSE jobs[j]]
    /\ reaped' = Cardinality({j \in DOMAIN jobs :
                                 Stuck(jobs[j], timeout_minutes)})
    /\ UNCHANGED <<source, raw, pb, fvars, workers, wvars, crashes, hist,
                   push_log, fres, tvars>>

\* reset_stuck_jobs(10): one UPDATE; returns cursor.rowcount
reset_stuck_jobs ==
    /\ jobs' = [j \in DOMAIN jobs |->
                  IF Stuck(jobs[j], timeout_minutes)
                  THEN [jobs[j] EXCEPT !.status = "queued"]
                  ELSE jobs[j]]
    /\ reaped' = Cardinality({j \in DOMAIN jobs :
                                 Stuck(jobs[j], timeout_minutes)})
    /\ UNCHANGED <<source, raw, pb, fvars, workers, wvars, crashes, hist,
                   push_log, fres, tvars>>

Reap == reset_stuck_jobs /\ UNCHANGED lvars

\* ------------------------------------------------------------------ crash
\* process_queued_job(job) is running in w: the job is claimed and neither
\* mark_job_done nor mark_job_failed has written yet
InFlight(w, j) ==
    /\ wjob[w].id = j
    /\ wpc[w] \in {"push", "write", "done", "fail", "fail_wr"}

\* The process dies and is started again: every pass and drain in flight is
\* gone, the tables and the downstream store stay as they are.
Crash ==
    /\ crashes < MaxCrashes
    /\ \/ \E f \in DOMAIN fpc : fpc[f] # "idle"
       \/ \E w \in workers : wpc[w] # "idle"
    /\ crashes' = crashes + 1
    /\ fpc' = [f \in DOMAIN fpc |-> "idle"]
    /\ fsnap' = [f \in DOMAIN fpc |-> <<>>]
    /\ fidx' = [f \in DOMAIN fpc |-> 0]
    /\ fsel' = [f \in DOMAIN fpc |-> 0]
    /\ fpid' = [f \in DOMAIN fpc |-> 0]
    /\ fupd' = [f \in DOMAIN fpc |-> FALSE]
    /\ fjob' = [f \in DOMAIN fpc |-> 0]
    /\ wpc' = [w \in workers |-> "idle"]
    /\ wjob' = [w \in workers |-> NoJob]
    /\ wfound' = [w \in workers |-> 0]
    /\ wrc' = [w \in workers |-> 0]
    /\ lost' = [j \in DOMAIN lost |->
                  lost[j] + Cardinality({w \in workers : InFlight(w, j)})]
    /\ fres' = [f \in DOMAIN fpc |-> NoCounts]
    /\ draining' = [w \in workers |-> FALSE]
    /\ tick_left' = [w \in workers |-> {}]
    /\ tick_done' = [w \in workers |-> {}]
    /\ UNCHANGED <<source, raw, jobs, pb, workers, reaped, attempts, ended,
                   push_log, lvars>>

\* ------------------------------------------------------------------- Next
Next ==
    \/ Tick
    \/ \E k \in DOMAIN source : SourceChange(k)
    \/ \E f \in DOMAIN fpc : FetchStart(f)
    \/ \E f \in DOMAIN fpc : UpsertSelect(f)
    \/ \E f \in DOMAIN fpc : UpsertWrite(f)
    \/ \E f \in DOMAIN fpc : EnqueueSelect(f)
    \/ \E f \in DOMAIN fpc : EnqueueWrite(f)
    \/ \E w \in workers : ClaimSelect(w)
    \/ \E w \in workers : ClaimWrite(w)
    \/ \E w \in workers : Find(w)
    \/ \E w \in workers : Write(w)
    \/ \E w \in workers : MarkDone(w)
    \/ \E w \in workers : MarkFailedSelect(w)
    \/ \E w \in workers : MarkFailedWrite(w)
    \/ \E w \in workers : LogDone(w)
    \/ \E w \in workers : LogFailed(w)
    \/ \E w \in workers : DrainEnd(w)
    \/ \E f \in DOMAIN fpc : FetchFail(f)
    \/ Reap
    \/ Crash

Spec == Init /\ [][Next]_vars

FetchStep ==
    \/ \E f \in DOMAIN fpc : FetchStart(f)
    \/ \E f \in DOMAIN fpc : UpsertSelect(f)
    \/ \E f \in DOMAIN fpc : UpsertWrite(f)
    \/ \E f \in DOMAIN fpc : EnqueueSelect(f)
    \/ \E f \in DOMAIN fpc : EnqueueWrite(f)

DrainStep ==
    \/ \E w \in workers : ClaimSelect(w)
    \/ \E w \in workers : ClaimWrite(w)
    \/ \E w \in workers : Find(w)
    \/ \E w \in workers : Write(w)
    \/ \E w \in workers : MarkDone(w)
    \/ \E w \in workers : MarkFailedSelect(w)
    \/ \E w \in workers : MarkFailedWrite(w)
    \/ \E w \in workers : LogDone(w)
    \/ \E w \in workers : LogFailed(w)
    \/ \E w \in workers : DrainEnd(w)

\* the steps that take no time: the clock stands still, nothing crashes
NextUntimed ==
    \/ \E k \in DOMAIN source : SourceChange(k)
    \/ FetchStep
    \/ DrainStep

\* the on-demand trigger runs a second fetch pass beside the scheduled one
InitTrigger == InitWith(NoRecords({"A"}), {"sched", "trig"}, {"w1"})
SpecTrigger == InitTrigger /\ [][NextUntimed]_vars

\* the scheduled and the triggered pass alone, over a changing source
NextPasses ==
    \/ \E k \in DOMAIN source : SourceChange(k)
    \/ FetchStep
SpecPasses == InitTrigger /\ [][NextPasses]_vars

\* two processes drain the same job queue
InitScaled == InitWith(NoRecords({"A"}), {"sched"}, {"w1", "w2"})
SpecScaled == InitScaled /\ [][NextUntimed]_vars

\* Two records whose content does not change; the second one lacks the
\* work order ids, so its transform fails.
InitTwo ==
    InitWith([k \in {"A", "B"} |->
                 [v |-> 1, wo |-> k = "A", keyed |-> TRUE, ord |-> 1]],
             {"sched"}, {"w1"})
NextFixed ==
    \/ Tick
    \/ FetchStep
    \/ DrainStep
    \/ Reap
    \/ Crash
SpecTwo == InitTwo /\ [][NextFixed]_vars

\* The fetch loop and the process loop of one worker over a source whose
\* content changes; a source request can fail.  No crash, no reaper run.
NextIngest ==
    \/ Tick
    \/ \E k \in DOMAIN source : SourceChange(k)
    \/ FetchStep
    \/ DrainStep
    \/ \E f \in DOMAIN fpc : FetchFail(f)
SpecIngest == Init /\ [][NextIngest]_vars

\* Two records whose content does not change, fetched and drained by one
\* worker.  No crash, no reaper run.
NextDrain ==
    \/ Tick
    \/ FetchStep
    \/ DrainStep
SpecDrain == InitTwo /\ [][NextDrain]_vars

\* The same, with the executor thread running the call it was given and
\* the clock advancing.
SpecDrainRuns ==
    /\ InitTwo
    /\ [][NextDrain]_vars
    /\ WF_vars(DrainStep)
    /\ WF_vars(Tick)

\* Three records whose content does not change; the second one lacks its
\* natural-key fields.  No crash, no reaper run.
InitBatch ==
    InitWith([k \in {"A", "B", "C"} |->
                 [v |-> 1, wo |-> TRUE, keyed |-> k # "B", ord |-> 1]],
             {"sched"}, {"w1"})
SpecBatch == InitBatch /\ [][NextDrain]_vars

\* Three records A, B, C; B changes and C disappears from the source.
\* The clock stands still, nothing crashes.
InitScenario ==
    InitWith([k \in {"A", "B", "C"} |->
                 [v |-> 1, wo |-> TRUE, keyed |-> TRUE, ord |-> 1]],
             {"sched"}, {"w1"})
NextScenario ==
    \/ SourceChange("B")
    \/ SourceOmits("C")
    \/ FetchStep
    \/ DrainStep
SpecScenario == InitScenario /\ [][NextScenario]_vars

\* One record whose content changes and whose fields the source lists in
\* one order or another; one pass at a time beside the drain.
NextOrder ==
    \/ \E k \in DOMAIN source : SourceChange(k)
    \/ \E k \in DOMAIN source : SourceReorders(k)
    \/ FetchStep
    \/ DrainStep
SpecOrder == Init /\ [][NextOrder]_vars

\* One record whose content changes.  A pass runs only while no delivery is
\* in flight and a drain only while no pass is (so that no change is
\* fetched in the middle of an attempt); the process can die at any point.
QuietFetchStep == (\A w \in workers : wpc[w] = "idle") /\ FetchStep
QuietDrainStep == (\A f \in DOMAIN fpc : fpc[f] = "idle") /\ DrainStep
NextRecovery ==
    \/ \E k \in DOMAIN source : SourceChange(k)
    \/ QuietFetchStep
    \/ QuietDrainStep
    \/ Crash
SpecRecovery == Init /\ [][NextRecovery]_vars

\* One record whose content does not change, fetched by one pass at a time
\* and drained by two processes while the clock advances.
InitShared ==
    InitWith([k \in {"A"} |->
                 [v |-> 1, wo |-> TRUE, keyed |-> TRUE, ord |-> 1]],
             {"sched"}, {"w1", "w2"})
SpecShared == InitShared /\ [][NextDrain]_vars

\* One record whose content does not change.  The event loop keeps the
\* three loops of the worker ticking and the clock keeps advancing; a
\* crash is not bound to happen.
InitLive ==
    InitWith([k \in {"A"} |->
                 [v |-> 1, wo |-> TRUE, keyed |-> TRUE, ord |-> 1]],
             {"sched"}, {"w1"})
SpecLive ==
    /\ InitLive
    /\ [][NextFixed]_vars
    /\ WF_vars(Tick)
    /\ WF_vars(FetchStep)
    /\ WF_vars(DrainStep)
    /\ WF_vars(Reap)

\* ------------------------------------------------------------ worker loops
\* Positions of a loop of SyncWorker: "off" before start, "sleep" in the
\* asyncio.sleep of the while body, "call" in _run_fetch / _run_processing /
\* _run_reaper before the executor runs the work, "wait" while the executor
\* runs it, "cancelled" after stop.
TheFetch == "sched"
TheDrain == "w1"

\* the positions of a task that has not ended
Live == {"sleep", "call", "wait"}

\* Faulty variant: the tasks are created whether or not the worker runs
Starts_Unguarded(running) == TRUE

\* if not self.is_running:
Starts(running) == ~running

\* SyncWorker.start(run_fetch_immediately): unless the worker is running,
\* is_running is set and three tasks are created; with
\* run_fetch_immediately the fetch loop runs a pass before its first sleep
StartCall(run_fetch_immediately) ==
    /\ IF Starts(is_running)
       THEN /\ is_running' = TRUE
            /\ lpc' = [l \in Loops |->
                         IF l = "fetch" /\ run_fetch_immediately
                         THEN "call" ELSE "sleep"]
            /\ tasks' = [l \in Loops |-> tasks[l] + 1]
       ELSE UNCHANGED <<is_running, lpc, tasks>>
    /\ UNCHANGED <<source, raw, jobs, pb, fvars, workers, wvars, reaped,
                   crashes, hist, push_log, fres, tvars, errs,
                   current_sync_stats, api>>

start(run_fetch_immediately) ==
    StartCall(run_fetch_immediately) /\ UNCHANGED lifespan

\* lifespan, before the yield: startup() -> start_scheduler() ->
\* scheduler.start(run_immediately=True)
startup ==
    /\ lifespan = "created"
    /\ StartCall(TRUE)
    /\ lifespan' = "running"

\* task.cancel() for the tasks that fetch_task, process_task and
\* reaper_task refer to
Cancelled ==
    [l \in Loops |-> IF lpc[l] \in Live THEN tasks[l] - 1 ELSE tasks[l]]

\* SyncWorker.stop: the three tasks are cancelled; work that the executor
\* is running goes on to its end
stop ==
    /\ is_running
    /\ is_running' = FALSE
    /\ lpc' = [l \in Loops |-> "cancelled"]
    /\ tasks' = Cancelled
    /\ UNCHANGED <<source, raw, jobs, pb, fvars, workers, wvars, reaped,
                   crashes, hist, push_log, fres, tvars, errs,
                   current_sync_stats, api, lifespan>>

\* events.py, line 40: shutdown() -- an async function called without
\* await returns a coroutine object and runs nothing of its body
shutdown_awaited == FALSE

\* lifespan, after the yield
lifespan_exit ==
    /\ lifespan = "running"
    /\ lifespan' = "ended"
    /\ IF shutdown_awaited /\ is_running
       \* shutdown: await scheduler.stop()
       THEN /\ is_running' = FALSE
            /\ lpc' = [l \in Loops |-> "cancelled"]
            /\ tasks' = Cancelled
       ELSE UNCHANGED <<is_running, lpc, tasks>>
    /\ UNCHANGED <<source, raw, jobs, pb, fvars, workers, wvars, reaped,
                   crashes, hist, push_log, fres, tvars, errs,
                   current_sync_stats, api>>

\* asyncio.sleep(...) of the while body returns
LoopWake(l) ==
    /\ lpc[l] = "sleep"
    /\ lpc' = [lpc EXCEPT ![l] = "call"]
    /\ UNCHANGED <<source, raw, jobs, pb, fvars, workers, wvars, reaped,
                   crashes, hist, push_log, fres, tvars, is_running, errs,
                   current_sync_stats, api, tasks, lifespan>>

\* Faulty variant: the exception leaves the coroutine and the task ends
AfterError_Ends == "ended"

\* except Exception: logger.error(...); the coroutine returns to the while
\* loop, which tests is_running and sleeps
AfterError == "sleep"

\* an exception is raised in the tick of loop l before its work starts
LoopError(l) ==
    /\ lpc[l] = "call"
    /\ errs[l] < MaxErrors
    /\ errs' = [errs EXCEPT ![l] = @ + 1]
    /\ lpc' = [lpc EXCEPT ![l] = AfterError]
    /\ current_sync_stats' =
          IF l = "fetch"
          THEN [current_sync_stats EXCEPT !.is_syncing = FALSE]
          ELSE current_sync_stats
    /\ UNCHANGED <<source, raw, jobs, pb, fvars, workers, wvars, reaped,
                   crashes, hist, push_log, fres, tvars, is_running, api, tasks, lifespan>>

\* _run_fetch after the executor's future resolves: result.get("fetched", 0),
\* result.get("stored", 0), result.get("queued", 0); the result of
\* fetch_and_store_erp_data has the keys stored and queued only
SessionStats(result) ==
    [is_syncing |-> FALSE, total_fetched |-> 0,
     unique_records |-> result.stored, queued_jobs |-> result.queued]

\* _run_fetch: the executor starts fetch_and_store_erp_data
LoopFetch ==
    /\ lpc["fetch"] = "call"
    /\ FetchBegin(TheFetch)
    /\ lpc' = [lpc EXCEPT !["fetch"] = "wait"]
    /\ current_sync_stats' = [current_sync_stats EXCEPT !.is_syncing = TRUE]
    /\ UNCHANGED <<is_running, errs, api, tasks, lifespan>>

\* _run_fetch: the source request fails, the pass returns the zero counts
LoopFetchFails ==
    /\ lpc["fetch"] = "call"
    /\ FetchRaises(TheFetch)
    /\ lpc' = [lpc EXCEPT !["fetch"] = "sleep"]
    /\ current_sync_stats' = SessionStats(FailedCounts(TheFetch))
    /\ UNCHANGED <<is_running, errs, api, tasks, lifespan>>

\* the steps of the pass that the executor is running
LoopFetchStep ==
    \/ UpsertSelect(TheFetch)
    \/ UpsertWrite(TheFetch)
    \/ EnqueueSelect(TheFetch)
    \/ EnqueueWrite(TheFetch)

\* _run_fetch: the executor's future resolves and the statistics are kept
LoopFetchReturn ==
    /\ lpc["fetch"] = "wait"
    /\ fpc[TheFetch] = "idle"
    /\ lpc' = [lpc EXCEPT !["fetch"] = "sleep"]
    /\ current_sync_stats' = SessionStats(fres[TheFetch])
    /\ UNCHANGED <<source, raw, jobs, pb, fvars, workers, wvars, reaped,
                   crashes, hist, push_log, fres, tvars, is_running, errs,
                   api, tasks, lifespan>>

\* _run_processing: the executor starts process_all_queued_jobs
LoopDrain ==
    /\ lpc["process"] = "call"
    /\ lpc' = [lpc EXCEPT !["process"] = "wait"]
    /\ UNCHANGED <<source, raw, jobs, pb, fvars, workers, wvars, reaped,
                   crashes, hist, push_log, fres, tvars, is_running, errs,
                   current_sync_stats, api, tasks, lifespan>>

\* the steps of the call of process_all_queued_jobs that the executor is
\* running; a call in flight at stop runs to its end
LoopDrainStep ==
    /\ lpc["process"] = "wait" \/ draining[TheDrain]
    /\ \/ ClaimSelect(TheDrain)
       \/ ClaimWrite(TheDrain)
       \/ Find(TheDrain)
       \/ Write(TheDrain)
       \/ MarkDone(TheDrain)
       \/ MarkFailedSelect(TheDrain)
       \/ MarkFailedWrite(TheDrain)
       \/ LogDone(TheDrain)
       \/ LogFailed(TheDrain)

\* get_next_queued_job returns None: process_all_queued_jobs returns its
\* counts and the loop goes back to its sleep
LoopDrainReturn ==
    /\ lpc["process"] = "wait"
    /\ wpc[TheDrain] = "idle"
    /\ Drained
    /\ lpc' = [lpc EXCEPT !["process"] = "sleep"]
    /\ draining' = [draining EXCEPT ![TheDrain] = FALSE]
    /\ tick_left' = [tick_left EXCEPT ![TheDrain] = {}]
    /\ tick_done' = [tick_done EXCEPT ![TheDrain] = {}]
    /\ UNCHANGED <<source, raw, jobs, pb, fvars, workers, wvars, reaped,
                   crashes, hist, push_log, fres, is_running, errs,
                   current_sync_stats, api, tasks, lifespan>>

\* _run_reaper: reset_stuck_jobs(10) is one statement
LoopReap ==
    /\ lpc["reaper"] = "call"
    /\ reset_stuck_jobs
    /\ lpc' = [lpc EXCEPT !["reaper"] = "sleep"]
    /\ UNCHANGED <<is_running, errs, current_sync_stats, api, tasks, lifespan>>

NextLoops ==
    \/ startup
    \/ stop
    \/ Tick
    \/ \E l \in Loops : LoopWake(l)
    \/ \E l \in Loops : LoopError(l)
    \/ LoopFetch
    \/ LoopFetchFails
    \/ LoopFetchStep
    \/ LoopFetchReturn
    \/ LoopDrain
    \/ LoopDrainStep
    \/ LoopDrainReturn
    \/ LoopReap

\* The event loop runs every coroutine that is ready and the executor runs
\* the work it was given; start, stop, the clock and the errors are not
\* bound to happen.
SpecLoops ==
    /\ InitLive
    /\ [][NextLoops]_vars
    /\ \A l \in Loops : WF_vars(LoopWake(l))
    /\ WF_vars(LoopFetch)
    /\ WF_vars(LoopFetchStep)
    /\ WF_vars(LoopFetchReturn)
    /\ WF_vars(LoopDrain)
    /\ WF_vars(LoopDrainStep)
    /\ WF_vars(LoopDrainReturn)
    /\ WF_vars(LoopReap)

\* ------------------------------------------------------------- HTTP API
\* SyncScheduler.sync_in_progress: return worker.is_running
sync_in_progress == is_running

\* POST /job-sync/stop
stop_sync ==
    /\ IF ~is_running
       THEN /\ api' = [op |-> "stop", result |-> "already_stopped"]
            /\ UNCHANGED <<is_running, lpc, tasks>>
       ELSE IF sync_in_progress
            \* HTTPException(409): cannot stop while sync is in progress
            THEN /\ api' = [op |-> "stop", result |-> "rejected"]
                 /\ UNCHANGED <<is_running, lpc, tasks>>
            \* await scheduler.stop()
            ELSE /\ api' = [op |-> "stop", result |-> "stopped"]
                 /\ is_running' = FALSE
                 /\ lpc' = [l \in Loops |-> "cancelled"]
                 /\ tasks' = Cancelled
    /\ UNCHANGED <<source, raw, jobs, pb, fvars, workers, wvars, reaped,
                   crashes, hist, push_log, fres, tvars, errs,
                   current_sync_stats, lifespan>>

\* the functions that the module db_helpers defines
db_helpers ==
    {"now_utc", "calculate_payload_hash", "insert_raw_erp_data",
     "create_job_for_payload", "get_next_queued_job", "mark_job_done",
     "mark_job_failed", "log_push_result", "reset_stuck_jobs"}

\* SELECT COUNT(*) FROM job_queue WHERE status = ?
QueueDepth(status) == Cardinality({j \in DOMAIN jobs : jobs[j].status = status})

\* GET /job-sync/status: db_helpers.get_sync_statistics() is looked up in
\* the module; an AttributeError is caught by except Exception and answered
\* with HTTPException(500)
get_sync_status ==
    /\ IF "get_sync_statistics" \in db_helpers
       THEN api' = [op |-> "status", result |-> "ok",
                    scheduler_running |-> is_running,
                    sync_in_progress |-> sync_in_progress,
                    jobs_queued |-> QueueDepth("queued"),
                    jobs_processing |-> QueueDepth("processing"),
                    jobs_done |-> QueueDepth("done"),
                    jobs_failed |-> QueueDepth("failed")]
       ELSE api' = [op |-> "status", result |-> "error"]
    /\ UNCHANGED <<source, raw, jobs, pb, fvars, workers, wvars, reaped,
                   crashes, hist, push_log, fres, tvars, is_running, lpc,
                   errs, current_sync_stats, tasks, lifespan>>

\* the worker of one process with its HTTP endpoints /stop and /status
NextApi ==
    \/ NextLoops
    \/ stop_sync
    \/ get_sync_status
SpecApi == InitLive /\ [][NextApi]_vars

\* ----------------------------------------------------------------- claims
Active(j) == jobs[j].status \in {"queued", "processing"}

\* C1: every raw record (payload_ref) has at most one job whose status is
\* queued or processing, whatever the interleaving of the scheduled and the
\* triggered fetch pass with the drain.
C1_SingleActiveJob ==
    \A i, j \in DOMAIN jobs :
        (Active(i) /\ Active(j) /\ jobs[i].payload_ref = jobs[j].payload_ref)
            => i = j

\* get_next_queued_job has returned job j to worker w
Received(w, j) == InFlight(w, j)

\* C2: no job is returned by get_next_queued_job to two concurrent callers
\* for the same queued-to-processing transition.
C2_ClaimExclusive ==
    \A w1, w2 \in workers : \A j \in DOMAIN jobs :
        (Received(w1, j) /\ Received(w2, j)) => w1 = w2

\* the status changes of the job state machine
Allowed ==
    {<<"queued", "processing">>, <<"processing", "done">>,
     <<"processing", "queued">>, <<"processing", "failed">>,
     <<"done", "queued">>}

\* C3: every change of a job's status is queued->processing,
\* processing->done, processing->queued, processing->failed or
\* done->queued; no other change of status ever occurs.
C3_StateMachine ==
    [][\A j \in DOMAIN jobs :
          jobs'[j].status # jobs[j].status
              => <<jobs[j].status, jobs'[j].status>> \in Allowed]_vars

\* no fetch pass and no delivery is in flight
Quiet ==
    /\ \A f \in DOMAIN fpc : fpc[f] = "idle"
    /\ \A w \in workers : wpc[w] = "idle"

\* the raw record of key k holds what the source holds now, and its job is
\* done: a further fetch pass finds the hash unchanged and re-opens nothing
SettledDone(k) ==
    /\ Quiet
    /\ source[k].v > 0
    /\ RawId(k) # 0
    /\ raw[RawId(k)].payload =
          [k |-> k, v |-> source[k].v, wo |-> source[k].wo,
           keyed |-> source[k].keyed, ord |-> source[k].ord]
    /\ JobFor(RawId(k)) # 0
    /\ jobs[JobFor(RawId(k))].status = "done"

\* the downstream record of key k carries the stored payload of k
Delivered(k) ==
    /\ find_existing_record(k) # 0
    /\ pb[find_existing_record(k)] =
           transform_to_pocketbase(raw[RawId(k)].payload)

\* C4: once the source has stopped changing, every record whose job is not
\* failed ends with its job done and with the payload delivered last equal
\* to the record's current payload.  Stated on the states from which nothing
\* moves the job again: the source content is stored, the job is done and
\* nothing is in flight; there the delivered payload must be the current one.
C4_EventuallyConsistent ==
    \A k \in DOMAIN source : SettledDone(k) => Delivered(k)

\* the downstream records that carry natural key k
Records(k) == {i \in DOMAIN pb : pb[i].key = k}

\* a delivery of payload p has written downstream and nothing is in flight
DeliveredOnce(j) ==
    /\ jobs[j].status = "done"
    /\ \A w \in workers : ~InFlight(w, j)

\* C5: whatever the sequence of deliveries (after a failed attempt, after a
\* reaper reset, after a crash between the downstream write and
\* mark_job_done), the downstream store holds exactly one record per
\* delivered natural key; a record is created only when none with that
\* key exists, otherwise the existing record is updated in place.
C5_DeliveryIdempotent ==
    /\ [](\A k \in DOMAIN source : Cardinality(Records(k)) <= 1)
    /\ [](\A j \in DOMAIN jobs :
            DeliveredOnce(j) =>
                Cardinality(Records(raw[jobs[j].payload_ref].erp_id)) = 1)
    /\ [][/\ Len(pb') >= Len(pb)
          /\ \A i \in DOMAIN pb : pb'[i].key = pb[i].key
          /\ Len(pb') > Len(pb) =>
                /\ Len(pb') = Len(pb) + 1
                /\ Records(pb'[Len(pb')].key) = {}]_vars

\* a job is done after an attempt that a crash cut short and a second one
C5_Witness ==
    \E j \in DOMAIN jobs :
        /\ jobs[j].status = "done"
        /\ lost[j] >= 1
        /\ attempts[j] >= 2
        /\ Cardinality(Records(raw[jobs[j].payload_ref].erp_id)) = 1

\* C6: once a job is failed its status and retry_count never change again:
\* no claim selects it, no reaper run resets it, and create_job_for_payload
\* with force_requeue = True after a content change leaves it failed.
C6_FailedTerminal ==
    [][\A j \in DOMAIN jobs :
          jobs[j].status = "failed"
              => /\ jobs'[j].status = "failed"
                 /\ jobs'[j].retry_count = jobs[j].retry_count
                 /\ jobs'[j].next_attempt_at = Null]_vars

\* create_job_for_payload(force_requeue = True) is called for a record whose
\* job is failed
C6_Witness ==
    \E f \in DOMAIN fpc :
        /\ fpc[f] = "enqueue"
        /\ fupd[f]
        /\ JobFor(fpid[f]) # 0
        /\ jobs[JobFor(fpid[f])].status = "failed"

\* C7: a failure of a job with retry_count n-1 sets retry_count to n; for
\* n in 1..4 the job is queued with next_attempt_at = now + n*5 minutes
\* (never more than 60); for n = 5 it is failed and next_attempt_at is NULL.
\* The only other change of retry_count is the reset to 0 of a re-opened job.
C7_Backoff ==
    [][\A j \in DOMAIN jobs :
          LET n == jobs'[j].retry_count
          IN (n # jobs[j].retry_count /\ n # 0)
              => /\ n = jobs[j].retry_count + 1
                 /\ n \in 1..5
                 /\ n \in 1..4 =>
                       /\ jobs'[j].status = "queued"
                       /\ jobs'[j].next_attempt_at = n * 5
                       /\ jobs'[j].next_attempt_at <= 60
                 /\ n = 5 =>
                       /\ jobs'[j].status = "failed"
                       /\ jobs'[j].next_attempt_at = Null]_vars

\* the fifth failure has happened
C7_Witness ==
    \E j \in DOMAIN jobs :
        /\ jobs[j].status = "failed"
        /\ jobs[j].retry_count = 5
        /\ jobs[j].next_attempt_at = Null

\* the attempts of job j that ran to their end
Finished(j) ==
    attempts[j] - lost[j] - Cardinality({w \in workers : InFlight(w, j)})

\* C8: a job whose attempts all fail is claimed exactly 5 times since it was
\* created or last re-opened, retry_count rising by one with each attempt
\* that ran to its end; it then rests in failed and is never attempted a
\* sixth time; and no claim happens before next_attempt_at.  (An attempt cut
\* short by a crash ended in no failure and is not one of the five.)
C8_RetryExhaustion ==
    /\ [](\A j \in DOMAIN jobs :
            /\ attempts[j] - lost[j] <= 5
            /\ jobs[j].status # "done" => jobs[j].retry_count = Finished(j)
            /\ jobs[j].status = "failed" =>
                  /\ attempts[j] - lost[j] = 5
                  /\ jobs[j].retry_count = 5)
    /\ [][\A j \in DOMAIN jobs :
            attempts'[j] = attempts[j] + 1
                => /\ jobs[j].status = "queued"
                   /\ jobs[j].next_attempt_at # Null
                   /\ jobs[j].next_attempt_at <= 0]_vars

\* a job is failed after exactly five attempts, none cut short
C8_Witness ==
    \E j \in DOMAIN jobs :
        /\ jobs[j].status = "failed"
        /\ attempts[j] = 5
        /\ lost[j] = 0

\* processing, and last_attempt_at more than 10 minutes ago
Stale(row) ==
    /\ row.status = "processing"
    /\ row.last_attempt_at # Null
    /\ row.last_attempt_at < -10

\* C9: reset_stuck_jobs(10) resets to queued exactly the jobs that are
\* processing with last_attempt_at older than now - 10 minutes; a processing
\* job with a more recent last_attempt_at and every queued, done or failed
\* job is left as it is; the count returned is the number of jobs reset.
C9_Reaper ==
    [][Reap =>
        /\ \A j \in DOMAIN jobs :
             IF Stale(jobs[j])
             THEN jobs'[j] = [jobs[j] EXCEPT !.status = "queued"]
             ELSE jobs'[j] = jobs[j]
        /\ reaped' = Cardinality({j \in DOMAIN jobs : Stale(jobs[j])})
        /\ DOMAIN jobs' = DOMAIN jobs]_vars

\* a reaper run has reset one job and left a recently claimed one processing
C9_Witness ==
    /\ reaped = 1
    /\ \E i, j \in DOMAIN jobs :
        /\ jobs[i].status = "queued"
        /\ jobs[i].last_attempt_at < -10
        /\ jobs[j].status = "processing"
        /\ jobs[j].last_attempt_at >= -10

JobIds == 1..Len(KeyOrder)

\* job j is processing and no process_queued_job call is working on it:
\* the process that claimed it has died
Orphaned(j) ==
    /\ j \in DOMAIN jobs
    /\ jobs[j].status = "processing"
    /\ \A w \in workers : ~InFlight(w, j)

\* job j has been claimed and its delivery is about to start
Claimed(j) == \E w \in workers : InFlight(w, j) /\ wpc[w] = "push"

\* C10: a job left in processing by a process that died is, after the
\* restart, reset to queued by the reaper and then claimed and delivered
\* again, with no operator action; no job stays in processing forever.
C10_CrashRecovery ==
    \A j \in JobIds :
        /\ Orphaned(j) ~> (j \in DOMAIN jobs /\ jobs[j].status = "queued")
        /\ Orphaned(j) ~> Claimed(j)
        /\ (j \in DOMAIN jobs /\ jobs[j].status = "processing")
              ~> (j \in DOMAIN jobs /\ jobs[j].status # "processing")

\* the reaper has reset a job whose attempt a crash cut short, and the job
\* has been claimed again
C10_Witness ==
    /\ crashes >= 1
    /\ reaped >= 1
    /\ \E j \in DOMAIN jobs : lost[j] >= 1 /\ Claimed(j)

Rec(f) == fsnap[f][fidx[f]]
RowsOf(table, erp_id) == {i \in DOMAIN table : table[i].erp_id = erp_id}

\* C12: insert_raw_erp_data inserts a row and returns is_updated = False
\* when erp_id is unseen; replaces payload and hash and returns True when
\* the row exists with another hash; leaves the row as it is and returns
\* False when the hash is the same; in all three cases it returns the id of
\* the single row with that erp_id.  (Stated on the step at which the call
\* returns; fetched_at is written with the payload and is not kept.)
C12_UpsertResult ==
    [][\A f \in DOMAIN fpc :
          ((UpsertSelect(f) \/ UpsertWrite(f)) /\ fpc'[f] # "upsert_wr") =>
            LET key == generate_erp_id(Rec(f))
                id == RawId(key)
                h == calculate_payload_hash(Rec(f))
            IN /\ fpc'[f] = "enqueue"
               /\ RowsOf(raw', key) = {fpid'[f]}
               /\ \A i \in DOMAIN raw : i # id => raw'[i] = raw[i]
               /\ IF id = 0
                  THEN /\ Len(raw') = Len(raw) + 1
                       /\ raw'[fpid'[f]] = [erp_id |-> key, payload |-> Rec(f),
                                            payload_hash |-> h]
                       /\ ~fupd'[f]
                  ELSE /\ Len(raw') = Len(raw)
                       /\ fpid'[f] = id
                       /\ IF raw[id].payload_hash # h
                          THEN /\ raw'[id] = [erp_id |-> key,
                                              payload |-> Rec(f),
                                              payload_hash |-> h]
                               /\ raw'[id] # raw[id]
                               /\ fupd'[f]
                          ELSE /\ raw'[id] = raw[id]
                               /\ ~fupd'[f]]_vars

\* the call has replaced the payload of an existing row and returned True
C12_Witness ==
    \E f \in DOMAIN fpc :
        /\ fpc[f] = "enqueue"
        /\ fupd[f]
        /\ raw[fpid[f]].payload = Rec(f)
        /\ raw[fpid[f]].payload.v = 2

\* the pass f is handling a record whose content is what is stored and
\* whose raw record has a job
Unchanged(f) ==
    \/ /\ fpc[f] = "upsert"
       /\ RawId(generate_erp_id(Rec(f))) # 0
       /\ raw[RawId(generate_erp_id(Rec(f)))].payload_hash =
              calculate_payload_hash(Rec(f))
       /\ \E j \in DOMAIN jobs :
              jobs[j].payload_ref = RawId(generate_erp_id(Rec(f)))
    \/ /\ fpc[f] = "enqueue"
       /\ ~fupd[f]
       /\ \E j \in DOMAIN jobs : jobs[j].payload_ref = fpid[f]

\* C13: a fetch pass over content identical to what is stored changes no
\* raw record, creates no job and changes no field of any job, whatever the
\* status of the existing jobs; the number of jobs stays the same.  Stated
\* for every record of a pass: handling a record whose content is stored
\* runs no write at all.
C13_IdempotentIngestion ==
    [][\A f \in DOMAIN fpc :
          (Unchanged(f) /\ (UpsertSelect(f) \/ EnqueueSelect(f)))
              => /\ raw' = raw
                 /\ jobs' = jobs
                 /\ fpc'[f] \notin {"upsert_wr", "enqueue_wr"}
                 /\ fpc[f] = "upsert" => Unchanged(f)']_vars

\* a pass has found the stored content again while the job is done
C13_Witness ==
    \E f \in DOMAIN fpc :
        /\ fpc[f] = "enqueue"
        /\ Unchanged(f)
        /\ jobs[JobFor(fpid[f])].status = "done"
        /\ jobs[JobFor(fpid[f])].retry_count > 0

\* C14: for a done job, a fetch pass that sees another content hash for its
\* raw record moves that same job (same id, no new row) to queued with
\* retry_count = 0 and next_attempt_at = now, so that it is eligible for
\* the next claim at once.
C14_ChangeRequeues ==
    [][\A f \in DOMAIN fpc :
          /\ (/\ EnqueueSelect(f)
              /\ fupd[f]
              /\ JobFor(fpid[f]) # 0
              /\ jobs[JobFor(fpid[f])].status = "done")
                => /\ fpc'[f] = "enqueue_wr"
                   /\ fjob'[f] = JobFor(fpid[f])
          /\ (EnqueueWrite(f) /\ fjob[f] # 0)
                => /\ jobs[fjob[f]].status = "done"
                   /\ Len(jobs') = Len(jobs)
                   /\ jobs'[fjob[f]].status = "queued"
                   /\ jobs'[fjob[f]].retry_count = 0
                   /\ jobs'[fjob[f]].next_attempt_at = 0
                   /\ jobs'[fjob[f]].payload_ref = jobs[fjob[f]].payload_ref
                   /\ \A j \in DOMAIN jobs :
                         j # fjob[f] => jobs'[j] = jobs[j]]_vars

\* a job that was done after failed attempts has been re-opened for the
\* second version of its record
C14_Witness ==
    \E j \in DOMAIN jobs :
        /\ jobs[j].status = "queued"
        /\ jobs[j].retry_count = 0
        /\ jobs[j].next_attempt_at = 0
        /\ attempts[j] = 0
        /\ ended[j] >= 2
        /\ raw[jobs[j].payload_ref].payload.v = 2

\* the jobs of raw record payload_ref
JobsOf(payload_ref) == {j \in DOMAIN jobs : jobs[j].payload_ref = payload_ref}

\* C15: create_job_for_payload on a record that has a job returns the id
\* of that job and inserts no row; it changes the job only when
\* force_requeue is true and the status is done; for a queued, processing
\* or failed job (either flag) and for a done job without force_requeue
\* every field of every job is unchanged.
C15_EnqueueFrame ==
    [][\A f \in DOMAIN fpc :
          ((EnqueueSelect(f) \/ EnqueueWrite(f)) /\ JobsOf(fpid[f]) # {})
              => /\ Len(jobs') = Len(jobs)
                 /\ jobs' # jobs =>
                       /\ fupd[f]
                       /\ \A j \in JobsOf(fpid[f]) : jobs[j].status = "done"
                 /\ fpc'[f] # "enqueue_wr" =>
                       fres'[f].queued = fres[f].queued + 1]_vars

\* the call is made with force_requeue = True for a job that is processing
C15_Witness ==
    \E f \in DOMAIN fpc :
        /\ fpc[f] = "enqueue"
        /\ fupd[f]
        /\ JobsOf(fpid[f]) # {}
        /\ \A j \in JobsOf(fpid[f]) : jobs[j].status = "processing"

\* queued, and next_attempt_at is not in the future
Claimable(j) ==
    /\ jobs[j].status = "queued"
    /\ jobs[j].next_attempt_at # Null
    /\ jobs[j].next_attempt_at <= 0

\* C16: get_next_queued_job returns a job only if it is queued with
\* next_attempt_at <= now, and among those the one created first; it returns
\* None only when there is no such job; a job in backoff is not claimed
\* before its next_attempt_at even when it is the oldest; the claimed job
\* becomes processing with last_attempt_at = now.
C16_ClaimOrder ==
    [][\A w \in workers :
          /\ ClaimSelect(w) =>
                /\ Claimable(wjob'[w].id)
                /\ \A i \in DOMAIN jobs : Claimable(i) => wjob'[w].id <= i
                /\ wjob'[w].payload_ref = jobs[wjob'[w].id].payload_ref
          /\ DrainEnd(w) => \A i \in DOMAIN jobs : ~Claimable(i)
          /\ ClaimWrite(w) =>
                /\ Claimable(wjob[w].id)
                /\ jobs'[wjob[w].id] =
                      [jobs[wjob[w].id] EXCEPT !.status = "processing",
                                               !.last_attempt_at = 0]
                /\ \A i \in DOMAIN jobs :
                      i # wjob[w].id => jobs'[i] = jobs[i]]_vars

\* the younger job has been claimed while the older one waits in backoff
C16_Witness ==
    \E w \in workers :
        /\ wpc[w] = "push"
        /\ wjob[w].id = 2
        /\ jobs[2].status = "processing"
        /\ jobs[2].last_attempt_at = 0
        /\ jobs[1].status = "queued"
        /\ jobs[1].next_attempt_at > 0

\* C18: within one call of process_all_queued_jobs a job whose transform,
\* lookup or write fails is recorded through mark_job_failed, the call goes
\* on, and every other job that was eligible when the call began is claimed
\* in that same call: the call ends only when none of them is left.
C18_FailureIsolation ==
    /\ [][\A w \in workers :
            /\ MarkFailedWrite(w) =>
                  /\ draining'[w]
                  /\ jobs'[wjob[w].id].retry_count =
                        jobs[wjob[w].id].retry_count + 1
            /\ LogFailed(w) => draining'[w] /\ wpc'[w] = "idle"
            /\ (draining[w] /\ ~draining'[w]) => tick_left[w] = {}]_vars
    /\ [](\A w \in workers :
            (draining[w] /\ wpc[w] = "idle" /\ tick_left[w] # {})
                => \E j \in tick_left[w] : Claimable(j))

\* the failure of the first job has been recorded and the second job, which
\* was eligible when the call began, is still to be claimed
C18_Witness ==
    \E w \in workers :
        /\ wpc[w] = "idle"
        /\ draining[w]
        /\ tick_left[w] = {2}
        /\ jobs[1].status = "queued"
        /\ jobs[1].retry_count = 1
        /\ CopiesIn([job_id |-> 1, response_code |-> 500], push_log) = 1

\* rows of push_log for one job with one response code
Entries(job_id, response_code) ==
    CopiesIn([job_id |-> job_id, response_code |-> response_code], push_log)

C19_SourceFailure ==
    [][\A f \in DOMAIN fpc :
          FetchFail(f) =>
              /\ raw' = raw
              /\ jobs' = jobs
              /\ fres'[f].stored = 0
              /\ fres'[f].queued = 0
              /\ fpc'[f] = "idle"]_vars

\* a pass has failed after an earlier pass stored a record and queued its job
C19_Witness ==
    \E f \in DOMAIN fpc :
        /\ fpc[f] = "idle"
        /\ fres[f] = NoCounts
        /\ Len(raw) > 0
        /\ Len(jobs) > 0
        /\ crashes = 0

\* C20: while the worker is running, an error raised in a tick of the
\* fetch, process or reaper loop does not end the loop: no loop is ever
\* ended while is_running, every loop that has seen an error ticks again,
\* and each loop ticks infinitely often until stop.
C20_LoopsSurvive ==
    /\ [](is_running =>
            \A l \in Loops : lpc[l] \in {"sleep", "call", "wait"})
    /\ \A l \in Loops : []<>(~is_running \/ lpc[l] = "call")
    /\ [][\A l \in Loops :
            errs'[l] > errs[l] => lpc'[l] \in {"sleep", "call"}]_vars

\* every loop has had its error and is in a further tick
C20_Witness ==
    /\ is_running
    /\ \A l \in Loops : errs[l] = MaxErrors /\ lpc[l] = "call"

\* C21: a fetched record that lacks a natural-key field creates no raw row
\* and no job and does not end the pass: when the pass returns, every valid
\* record of the batch, before and after the invalid one, has its raw row
\* and its job.
C21_ValidationSkip ==
    /\ [](\A i \in DOMAIN raw : raw[i].payload.keyed)
    /\ [](\A f \in DOMAIN fpc :
            fpc[f] \in {"upsert", "upsert_wr", "enqueue", "enqueue_wr"}
                => Rec(f).keyed)
    /\ [][\A f \in DOMAIN fpc :
            (fpc[f] # "idle" /\ fpc'[f] = "idle") =>
                \A n \in DOMAIN fsnap[f] :
                    fsnap[f][n].keyed =>
                        \E i \in DOMAIN raw' :
                            /\ raw'[i].erp_id = generate_erp_id(fsnap[f][n])
                            /\ \E j \in DOMAIN jobs' :
                                  jobs'[j].payload_ref = i]_vars

\* a pass over A, the invalid B and C has returned: two rows, two jobs
C21_Witness ==
    /\ \A f \in DOMAIN fpc : fpc[f] = "idle"
    /\ \E n \in DOMAIN SourceRecords :
          /\ ~SourceRecords[n].keyed
          /\ 1 < n
          /\ n < Len(SourceRecords)
    /\ {raw[i].erp_id : i \in DOMAIN raw} = {"A", "C"}
    /\ {jobs[j].payload_ref : j \in DOMAIN jobs} = DOMAIN raw

\* a fetch pass started by the fetch loop is in flight
PassInFlight ==
    \/ lpc["fetch"] \in {"call", "wait"}
    \/ fpc[TheFetch] # "idle"

\* C22: a stop request made while the worker is running and no fetch pass
\* is in flight halts the three loops: afterwards is_running is false and
\* every loop task is cancelled.
C22_StopHalts ==
    [][(stop_sync /\ is_running /\ ~PassInFlight) =>
          /\ ~is_running'
          /\ \A l \in Loops : lpc'[l] = "cancelled"
          /\ api'.result = "stopped"]_vars

\* C23: once worker.stop() has returned, no fetch pass and no drain started
\* by the loops is still running.
C23_NoOrphanedWork ==
    (~is_running /\ \A l \in Loops : lpc[l] = "cancelled") =>
        /\ fpc[TheFetch] = "idle"
        /\ wpc[TheDrain] = "idle"
        /\ ~draining[TheDrain]

\* C24: sync_in_progress is true only while a fetch pass is in flight.
C24_SyncInProgress == sync_in_progress => PassInFlight

\* C25: every /status request succeeds and reports, for each status, the
\* number of jobs that have it.
C25_StatusCounts ==
    [][get_sync_status =>
          /\ api'.result = "ok"
          /\ api'.jobs_queued = QueueDepth("queued")
          /\ api'.jobs_processing = QueueDepth("processing")
          /\ api'.jobs_done = QueueDepth("done")
          /\ api'.jobs_failed = QueueDepth("failed")]_vars

\* the downstream rows of one natural key
PbRows(key) == {i \in DOMAIN pb : pb[i].key = key}

\* the keys whose content the source never changes: A stays as it is, C
\* only disappears
Unchanging == {"A", "C"}

\* C26: with A unchanged, B changed and C omitted by later passes: the done
\* job of A and of C is never modified again, and the raw row and the
\* downstream record of A and of C stay as they were written; when a pass
\* is through with a record (B), its raw row holds the fetched payload, it
\* has a job, and if the pass changed the raw row that job is not left
\* done; the requeue UPDATE leaves the job queued with
\* retry_count 0; a delivery that ends in done has written the job's
\* payload to the one downstream record of its key (an update, not a second
\* record): no key ever has two downstream records.
C26_Scenario ==
    /\ [](\A k \in DOMAIN source : Cardinality(PbRows(k)) <= 1)
    /\ [][\A k \in Unchanging :
            LET i == RawId(k)
                j == JobFor(i)
            IN /\ i # 0 => raw'[i] = raw[i]
               /\ (j # 0 /\ jobs[j].status = "done") => jobs'[j] = jobs[j]
               /\ \A r \in PbRows(k) : pb'[r] = pb[r]]_vars
    /\ [][\A f \in DOMAIN fpc :
            /\ (fpc[f] \in {"enqueue", "enqueue_wr"}
                  /\ fidx'[f] # fidx[f]) =>
                  /\ raw'[fpid[f]].payload = Rec(f)
                  /\ JobFor(fpid[f])' # 0
                  /\ fupd[f] => jobs'[JobFor(fpid[f])'].status # "done"
            /\ (fpc[f] = "enqueue_wr" /\ fjob[f] # 0
                  /\ fjob'[f] # fjob[f]) =>
                  /\ jobs'[fjob[f]].status = "queued"
                  /\ jobs'[fjob[f]].retry_count = 0
                  /\ jobs'[fjob[f]].next_attempt_at = now]_vars
    /\ [][\A w \in workers :
            MarkDone(w) =>
                \E r \in PbRows(wjob[w].payload.k) :
                    pb[r].v = wjob[w].payload.v]_vars

\* after the second pass and the redelivery of B: A's job done and never
\* re-opened, B updated downstream in place, C absent from the source with
\* its raw row, its done job and its downstream row still there
C26_Witness ==
    /\ source["B"].v > 1
    /\ source["C"].v = 0
    /\ \A f \in DOMAIN fpc : fpc[f] = "idle"
    /\ Len(raw) = Cardinality(DOMAIN source)
    /\ Len(jobs) = Len(raw)
    /\ \A j \in DOMAIN jobs : jobs[j].status = "done"
    /\ ended[JobFor(RawId("A"))] = 1
    /\ ended[JobFor(RawId("B"))] > 1
    /\ ended[JobFor(RawId("C"))] = 1
    /\ \A k \in DOMAIN source : Cardinality(PbRows(k)) = 1
    /\ \E i \in PbRows("B") : pb[i].v = source["B"].v

\* C27: no step deletes a row of erp_raw_data, job_queue or push_log or a
\* downstream record: the tables only grow, every row keeps its identity
\* (erp_id, payload_ref, key), and every push_log row stays as it is.
C27_HistoryKept ==
    [][/\ Len(raw') >= Len(raw)
       /\ \A i \in DOMAIN raw : raw'[i].erp_id = raw[i].erp_id
       /\ Len(jobs') >= Len(jobs)
       /\ \A j \in DOMAIN jobs : jobs'[j].payload_ref = jobs[j].payload_ref
       /\ push_log \sqsubseteq push_log'
       /\ Len(pb') >= Len(pb)
       /\ \A i \in DOMAIN pb : pb'[i].key = pb[i].key]_vars

\* after failed and successful deliveries, a reaper run and stop, the raw
\* row, the job, the downstream record and every log row are there
C27_Witness ==
    /\ ~is_running
    /\ \A l \in Loops : lpc[l] = "cancelled"
    /\ Len(raw) > 0
    /\ Len(pb) > 0
    /\ \E j \in DOMAIN jobs :
          /\ jobs[j].status = "done"
          /\ Entries(j, 500) > 0
          /\ Entries(j, 200) > 0
          /\ Entries(j, 200) + Entries(j, 500) = ended[j]

\* the INSERT of pass f is about to run although a row has the erp_id
LosesInsert(f) ==
    /\ fpc[f] = "upsert_wr"
    /\ fsel[f] = 0
    /\ RawId(generate_erp_id(Rec(f))) # 0

\* C28: no two rows of erp_raw_data share an erp_id, whatever the
\* interleaving of the scheduled and the triggered pass; the pass whose
\* INSERT meets the row of the other pass adds no row, does not count the
\* record as stored or queued and goes on to its next record without
\* enqueuing a job.
C28_NaturalKeyUnique ==
    /\ [](\A i, j \in DOMAIN raw :
            raw[i].erp_id = raw[j].erp_id => i = j)
    /\ [][\A f \in DOMAIN fpc :
            (LosesInsert(f) /\ UpsertWrite(f)) =>
                /\ raw' = raw
                /\ jobs' = jobs
                /\ fres'[f] = fres[f]
                /\ fpc'[f] \in {"idle", "upsert"}
                /\ fpc'[f] = "upsert" => fidx'[f] > fidx[f]]_vars

\* both passes found no row for the key, one has inserted it and the other
\* is at its INSERT
C28_Witness ==
    \E f, g \in DOMAIN fpc :
        /\ f # g
        /\ LosesInsert(f)
        /\ fpc[g] = "enqueue"
        /\ fpid[g] = RawId(generate_erp_id(Rec(f)))
        /\ fres[g].stored = 1
        /\ fres[f].stored = 0

\* the jobs that a step creates or moves to queued
NewlyQueued ==
    {j \in DOMAIN jobs' :
        /\ jobs'[j].status = "queued"
        /\ j \in DOMAIN jobs => jobs[j].status # "queued"}

\* C29: queued_count of a pass counts the jobs that the pass created or
\* moved to queued: every step of a running pass raises it by the number of
\* such jobs, so a pass over unchanged records that have a job returns
\* queued = 0.
C29_PassCounts ==
    [][\A f \in DOMAIN fpc :
          (fpc[f] # "idle" /\ fvars' # fvars) =>
              fres'[f].queued = fres[f].queued + Cardinality(NewlyQueued)]_vars

\* C30: when a scheduled pass has completed, total_fetched is the number of
\* records the source returned in that pass (the source content is fixed
\* here), unique_records the number stored and queued_jobs the number
\* queued.
C30_SessionCounters ==
    [][LoopFetchReturn =>
          /\ current_sync_stats'.total_fetched = Len(SourceRecords)
          /\ current_sync_stats'.unique_records = fres[TheFetch].stored
          /\ current_sync_stats'.queued_jobs = fres[TheFetch].queued]_vars

\* the stored payload and the fetched one have the same keys and values
SameContent(p, q) == p.k = q.k /\ p.v = q.v /\ p.wo = q.wo

\* the stored row of the record that the pass f is handling (0: none)
StoredId(f) == RawId(generate_erp_id(Rec(f)))

\* C31: insert_raw_erp_data of a payload with the keys and values of the
\* stored payload in another key order returns is_updated = False, writes
\* nothing, and the enqueue that follows leaves the job as it is (a done
\* job stays done); of a payload that differs from the stored one in the
\* value of a key it returns is_updated = True.
C31_OrderIndependent ==
    [][\A f \in DOMAIN fpc :
          /\ (UpsertSelect(f) /\ StoredId(f) # 0
                /\ SameContent(raw[StoredId(f)].payload, Rec(f))) =>
                /\ fpc'[f] = "enqueue"
                /\ ~fupd'[f]
                /\ fpid'[f] = StoredId(f)
                /\ raw' = raw
          /\ (UpsertWrite(f) /\ fsel[f] # 0) =>
                ~SameContent(raw[fsel[f]].payload, Rec(f))
          /\ ((UpsertSelect(f) \/ UpsertWrite(f)) /\ StoredId(f) # 0
                /\ fpc'[f] = "enqueue"
                /\ ~SameContent(raw[StoredId(f)].payload, Rec(f))) =>
                fupd'[f]
          /\ (EnqueueSelect(f) /\ ~fupd[f] /\ JobFor(fpid[f]) # 0) =>
                /\ jobs' = jobs
                /\ fpc'[f] # "enqueue_wr"]_vars

\* the upsert has returned False for a payload whose keys come in another
\* order than those of the stored payload, and the job of the row is done
C31_Witness ==
    \E f \in DOMAIN fpc :
        /\ fpc[f] = "enqueue"
        /\ ~fupd[f]
        /\ raw[fpid[f]].payload.ord # Rec(f).ord
        /\ SameContent(raw[fpid[f]].payload, Rec(f))
        /\ JobFor(fpid[f]) # 0
        /\ jobs[JobFor(fpid[f])].status = "done"

\* job j has never been re-opened: every claim of it since its creation
\* is an attempt that ended or the one in flight
NeverReopened(j) ==
    attempts[j] =
        ended[j] + Cardinality({w \in workers : InFlight(w, j)})

\* C32: get_next_queued_job returns with the job the payload that its raw
\* record holds at the SELECT of the claim, the attempt delivers that
\* payload, and create_job_for_payload for a record that changed while its
\* job is queued (waiting for its next attempt) leaves the job untouched:
\* the next attempt delivers the new payload, not the one the record had
\* when the job was created.
C32_LatestPayload ==
    [][/\ \A w \in workers :
            /\ ClaimSelect(w) =>
                  /\ wjob'[w].payload_ref = jobs[wjob'[w].id].payload_ref
                  /\ wjob'[w].payload = raw[wjob'[w].payload_ref].payload
            /\ (wjob[w].id # 0 /\ wpc'[w] # "idle") => wjob'[w] = wjob[w]
            /\ (Write(w) /\ wpc'[w] = "done") =>
                  \E r \in DOMAIN pb' :
                      /\ pb'[r] = transform_to_pocketbase(wjob[w].payload)
                      /\ \A i \in DOMAIN pb : i # r => pb'[i] = pb[i]
       /\ \A f \in DOMAIN fpc :
            (/\ EnqueueSelect(f)
             /\ fupd[f]
             /\ JobFor(fpid[f]) # 0
             /\ jobs[JobFor(fpid[f])].status = "queued") =>
                /\ jobs' = jobs
                /\ fpc'[f] # "enqueue_wr"]_vars

\* the last pass replaced the payload of the record; its job, never
\* re-opened and with a failed attempt behind it, has been claimed again
\* and the attempt has delivered the second version
C32_Witness ==
    \E w \in workers : \E f \in DOMAIN fpc :
        /\ fpc[f] = "idle"
        /\ fupd[f]
        /\ wpc[w] = "done"
        /\ wjob[w].payload_ref = fpid[f]
        /\ NeverReopened(wjob[w].id)
        /\ jobs[wjob[w].id].retry_count >= 1
        /\ wjob[w].payload.v = 2
        /\ \E r \in DOMAIN pb : pb[r] = transform_to_pocketbase(wjob[w].payload)

\* the job of raw record i is done and the downstream store does not hold
\* the payload of the record: a change of it has not been delivered
Undelivered(i) ==
    /\ JobFor(i) # 0
    /\ jobs[JobFor(i)].status = "done"
    /\ ~Delivered(raw[i].erp_id)

\* C33: when a pass has replaced the payload of a raw record and the
\* enqueue that follows did not take effect (the process died between the
\* two writes), a later pass over the same source content re-opens the done
\* job: create_job_for_payload called for a record whose stored payload has
\* not been delivered goes on to its requeue UPDATE.
C33_ChangeSurvives ==
    [][\A f \in DOMAIN fpc :
          (EnqueueSelect(f) /\ Undelivered(fpid[f])) =>
              /\ fpc'[f] = "enqueue_wr"
              /\ fjob'[f] = JobFor(fpid[f])]_vars

C35_ReaperFrame ==
    /\ [][Reap =>
            /\ DOMAIN jobs' = DOMAIN jobs
            /\ \A j \in DOMAIN jobs :
                  /\ jobs'[j].retry_count = jobs[j].retry_count
                  /\ jobs'[j].last_attempt_at = jobs[j].last_attempt_at
                  /\ jobs'[j].next_attempt_at = jobs[j].next_attempt_at
                  /\ jobs'[j].payload_ref = jobs[j].payload_ref
                  /\ jobs'[j].status # jobs[j].status =>
                        /\ jobs[j].status = "processing"
                        /\ Claimable(j)']_vars
    /\ [][\A j \in DOMAIN jobs :
            (jobs'[j].status = "failed" /\ jobs[j].status # "failed") =>
                /\ \E w \in workers : MarkFailedWrite(w) /\ wjob[w].id = j
                /\ jobs'[j].retry_count = jobs[j].retry_count + 1]_vars

\* a job that was claimed once and never failed has been reset by the
\* reaper: it is queued with retry_count 0 and can be claimed
C35_Witness ==
    /\ reaped = 1
    /\ \E j \in DOMAIN jobs :
          /\ jobs[j].status = "queued"
          /\ jobs[j].retry_count = 0
          /\ attempts[j] = 1
          /\ lost[j] = 1
          /\ jobs[j].last_attempt_at < now - timeout_minutes
          /\ Claimable(j)

\* C36 as stated: a call of process_all_queued_jobs terminates, and within
\* one call no job is claimed twice.
C36_DrainOnce ==
    /\ draining[TheDrain] ~> ~draining[TheDrain]
    /\ [][\A w \in workers :
            ClaimWrite(w) => wjob[w].id \notin tick_done[w]]_vars

\* C36, amended: a call of process_all_queued_jobs over a queue that no
\* pass changes terminates; an attempt leaves its job done, failed, or
\* queued with next_attempt_at at least 5 minutes ahead; a job is claimed
\* again within the same call only after a failed attempt and once those
\* minutes have passed, so a call that lasts less than 5 minutes claims
\* each job at most once and no call claims a job more than max_retries
\* times.
C36_DrainTerminates ==
    /\ draining[TheDrain] ~> ~draining[TheDrain]
    /\ [][\A w \in workers :
            /\ MarkDone(w) => jobs'[wjob[w].id].status = "done"
            /\ MarkFailedWrite(w) =>
                  \/ jobs'[wjob[w].id].status = "failed"
                  \/ /\ jobs'[wjob[w].id].status = "queued"
                     /\ jobs'[wjob[w].id].next_attempt_at >= now + 5
            /\ (ClaimWrite(w) /\ wjob[w].id \in tick_done[w]) =>
                  /\ jobs[wjob[w].id].retry_count >= 1
                  /\ jobs[wjob[w].id].retry_count < max_retries
                  /\ jobs[wjob[w].id].last_attempt_at <= now - 5]_vars

\* the SELECT of a running call has returned a job that the call has
\* claimed before, while the call has claimed the other job as well
C36_Witness ==
    \E w \in workers :
        /\ draining[w]
        /\ wpc[w] = "claim_wr"
        /\ wjob[w].id \in tick_done[w]
        /\ tick_done[w] = DOMAIN jobs
        /\ Len(jobs) = 2

\* C38: current_sync_stats.is_syncing is true only while a fetch pass of the
\* fetch loop is in flight: once the pass has ended, by its return, by an
\* exception or by the cancellation of stop(), is_syncing is false.
C38_SyncingCleared == current_sync_stats.is_syncing => PassInFlight

\* the application from the entry of its lifespan to its exit: the worker
\* that startup() starts, the /stop endpoint, and the end of the lifespan,
\* after which the process exits and nothing runs
NextApp ==
    \/ startup
    \/ lifespan_exit
    \/ /\ lifespan = "running"
       /\ \/ stop_sync
          \/ \E l \in Loops : LoopWake(l)
          \/ LoopFetch
          \/ LoopFetchStep
          \/ LoopFetchReturn
          \/ LoopDrain
          \/ LoopDrainStep
          \/ LoopDrainReturn
          \/ LoopReap
SpecApp == InitLive /\ [][NextApp]_vars

\* C37: when the lifespan of the application has ended, scheduler.stop()
\* has run to its end: is_running is false and no loop task is alive.
C37_ShutdownStops ==
    lifespan = "ended" =>
        /\ ~is_running
        /\ \A l \in Loops : tasks[l] = 0 /\ lpc[l] \notin Live

\* the worker under any sequence of start and stop calls
NextRestart ==
    \/ \E b \in BOOLEAN : start(b)
    \/ stop
    \/ \E l \in Loops : LoopWake(l)
    \/ LoopFetch
    \/ LoopFetchStep
    \/ LoopFetchReturn
    \/ LoopDrain
    \/ LoopDrainStep
    \/ LoopDrainReturn
    \/ LoopReap
SpecRestart == InitLive /\ [][NextRestart]_vars

\* C39: after any sequence of start and stop calls every loop has at most
\* one live task, and exactly one while the worker is running; start()
\* on a running worker creates no task; start() on a stopped worker
\* brings the three loops up.
C39_Restartable ==
    /\ [](\A l \in Loops : tasks[l] <= 1)
    /\ [](is_running => \A l \in Loops : tasks[l] = 1 /\ lpc[l] \in Live)
    /\ [][\A b \in BOOLEAN :
            /\ (start(b) /\ is_running) => UNCHANGED <<tasks, lpc>>
            /\ (start(b) /\ ~is_running) =>
                  /\ is_running'
                  /\ \A l \in Loops : tasks'[l] = 1 /\ lpc'[l] \in Live]_vars

\* the worker runs again after a stop() that cancelled a waiting fetch:
\* a second start(), without the immediate fetch, has brought the three
\* loops up, each with one task
C39_Witness ==
    /\ is_running
    /\ \A l \in Loops : tasks[l] = 1
    /\ lpc["fetch"] = "sleep"
    /\ current_sync_stats.is_syncing

====
